---- MODULE Spec2Model ----
(***************************************************************************)
(* Model of src/app.py: the LINE webhook, the per-user conversation state  *)
(* machine (_handle_event), the two background workers (_process_template, *)
(* _process_filled) and the spreadsheet adapter (create_store_sheet,       *)
(* append_reservations).                                                   *)
(*                                                                         *)
(* Every live Python thread is an element of the bag `threads`.  A         *)
(* thread's position (pc) changes at each blocking external call and at    *)
(* each access to the shared dictionary user_state that other statements   *)
(* separate from the previous one, so that the interleavings Python's      *)
(* scheduler allows are interleavings of the model.                        *)
(***************************************************************************)
EXTENDS Naturals, Sequences, FiniteSets, Bags

(***************************************************************************)
(* Bounds of the model                                                     *)
(***************************************************************************)
\* threads alive between two steps (handlers and workers together)
MaxThreads == 2
\* invocations of create_store_sheet over the whole run
MaxCreate == 2
\* events in one POST delivery
MaxBatch == 2

(***************************************************************************)
(* Values                                                                  *)
(***************************************************************************)
Users == {"u1"}
None == "none"

\* random.randint(100000, 999999): the two ends of the range stand for it
StoreIdLo == 100000
StoreIdHi == 999999
StoreIds == {StoreIdLo, StoreIdHi}
\* answers of the text model (resp.text.strip())
Names == {"Blue Moon Cafe"}
SeatInfos == {"1:3 2:2 4:1"}
\* message ids of image messages; the content of an image is named by its id
MsgIds == {"m1"}

\* A text is a sequence of words; "hai" is the affirmative token (はい),
\* "iie" the negative one (いいえ), which does not contain "hai".
Texts == { <<"x">>, <<"iie">>, <<"x", "hai">> }
Contains(text, tok) == \E i \in 1..Len(text) : text[i] = tok

\* answers of the vision model for a template image, after json.loads
TimeLists == { <<>>, <<"18:00", "18:30">> }
\* answers of the vision model for a filled image: a list of dicts, a dict
\* being a function from some of the keys to values
RowA == [time |-> "18:00", name |-> "A"]
RowB == [time |-> "18:00", name |-> "B"]
RowC == [time |-> "19:00", name |-> "C", size |-> "2"]
RowLists == { <<>>, <<RowA, RowB, RowC>> }

Steps == {"start", "confirm_store", "ask_seats", "confirm_seats",
          "wait_template_img", "confirm_template", "wait_filled_img", "done"}

VARIABLES
    user_state,    \* uid -> session dict, or NoSession
    threads,       \* the bag of live threads: each one's position and locals
    sheets,        \* sheet_url (an index) -> the rows of the worksheet
    master,        \* rows of the master index sheet, one per registered sheet
    createCalls,   \* uid -> number of create_store_sheet invocations
    sent,          \* messages sent to LINE by the last step
    exited,        \* how the thread that returned in the last step ended
    delivery       \* the webhook call of the last step and its response

vars == <<user_state, threads, sheets, master, createCalls, sent, exited, delivery>>

NoSession == [step |-> None, store_name |-> None, store_id |-> 0,
              seat_info |-> None, template_img |-> None, sheet_url |-> 0]
\* {"step": "start"}: the other keys are absent (None, 0)
NewSession == [NoSession EXCEPT !.step = "start"]

\* a thread's locals before it has assigned any of them
NoLocals == [kind |-> None, pc |-> None, etype |-> None, uid |-> None,
             mtype |-> None, text |-> <<>>, msg_id |-> None, step |-> None,
             img |-> None, times |-> <<>>, rows |-> <<>>, arg |-> <<>>,
             failed |-> FALSE]

Live == BagToSet(threads)
\* threading.Thread(...).start() is possible while fewer than MaxThreads live
CanStart == BagCardinality(threads) < MaxThreads
One(th) == SetToBag({th})

\* how a thread ended: whether an external call of it failed, and whether it
\* then sent the user a message asking to retry or resubmit
Exit(th, failed, notified) ==
    <<[kind |-> th.kind, uid |-> th.uid, step |-> th.step,
       failed |-> failed, notified |-> notified]>>
\* the webhook's answer to a request with n events, of which it dispatched d
\* with body response and HTTP status 200 (both return statements of webhook)
HttpOk == 200
NoDelivery == [n |-> 0, dispatched |-> 0, response |-> None, status |-> 0]
\* the same answer, a body other than "OK" sent with status 400
ResponseByBody(n, d, response) ==
    [n |-> n, dispatched |-> d, response |-> response,
     status |-> IF response = "OK" THEN HttpOk ELSE 400]
Response(n, d, response) ==
    [n |-> n, dispatched |-> d, response |-> response, status |-> HttpOk]

Msg(uid, via, kind) == <<[to |-> uid, via |-> via, kind |-> kind]>>

(***************************************************************************)
(* Spreadsheet adapter                                                     *)
(***************************************************************************)
\* ["月", "日", "時間帯", "名前", "人数", "備考"]
Header == <<"month", "day", "time", "name", "size", "note">>
TimeCol == 3

\* append_row in place of append_rows: one row, holding the first label
TimeRowsFirstOnly(times) ==
    IF times = <<>> THEN <<>> ELSE <<<<"", "", Head(times), "", "", "">>>>

\* ["", "", t, "", "", ""] for t in times
RECURSIVE TimeRows(_)
TimeRows(times) ==
    IF times = <<>> THEN <<>>
    ELSE <<<<"", "", Head(times), "", "", "">>>> \o TimeRows(Tail(times))

\* create_store_sheet, by how far it gets before an API call raises:
\*   fail_create  drive.files().create raises: no file exists
\*   fail_master  the sheet is written, the master index is not updated
\*   ok           the sheet_url is returned
\* (a failure between the two leaves a file with part of these rows, which
\* no session refers to, like the file fail_master leaves).  Of the row
\* appended to the master index the name, seat_info, sheet_url and times
\* columns are kept; the program never reads the index.
CreateOutcomes == {"ok", "fail_create", "fail_master"}
create_store_sheet(name, store_id, seat_info, times, outcome) ==
    LET url == Len(sheets) + 1
        rows == <<Header>> \o (IF times # <<>> THEN TimeRows(times) ELSE <<>>)
    IN  [sheets |-> IF outcome = "fail_create" THEN sheets ELSE Append(sheets, rows),
         master |-> IF outcome = "ok"
                    THEN Append(master, <<name, seat_info, url, times>>)
                    ELSE master,
         raised |-> outcome # "ok",
         url    |-> url]

\* r.get(key, "")
Get(r, key) == IF key \in DOMAIN r THEN r[key] ELSE ""
RowValues(r) == <<Get(r, "month"), Get(r, "day"), Get(r, "time"),
                  Get(r, "name"), Get(r, "size"), Get(r, "note")>>
RECURSIVE Values(_)
Values(rows) ==
    IF rows = <<>> THEN <<>> ELSE <<RowValues(Head(rows))>> \o Values(Tail(rows))

\* append_reservations: the new sheet contents (the call raises on "fail",
\* and on a sheet_url that opens no sheet)
AppendOutcomes == {"ok", "fail"}
append_reservations(sheet_url, rows) ==
    LET values == Values(rows)
    IN  IF values # <<>>
        THEN [sheets EXCEPT ![sheet_url] = @ \o values]
        ELSE sheets

(***************************************************************************)
(* Initial state: module import leaves user_state empty, no thread runs,   *)
(* and purge_service_account_sheets has deleted every spreadsheet.         *)
(***************************************************************************)
Init ==
    /\ user_state = [u \in Users |-> NoSession]
    /\ threads = EmptyBag
    /\ sheets = <<>>
    /\ master = <<>>
    /\ createCalls = [u \in Users |-> 0]
    /\ sent = <<>>
    /\ exited = <<>>
    /\ delivery = NoDelivery

(***************************************************************************)
(* Webhook                                                                 *)
(***************************************************************************)
MessageEvents ==
    [etype : {"message"}, uid : Users, mtype : {"text"}, text : Texts, msg_id : {None}]
    \cup
    [etype : {"message"}, uid : Users, mtype : {"image"}, text : {<<>>}, msg_id : MsgIds]
OtherEvents ==
    [etype : {"follow"}, uid : Users, mtype : {None}, text : {<<>>}, msg_id : {None}]
Events == MessageEvents \cup OtherEvents

\* A POST body: webhook() reads len(events) (through `not events`) and
\* events[0] only, so a batch is given by its length and its first event.
BatchSizes == 1..MaxBatch

\* Thread(target=_handle_event, args=(event,)).start()
StartHandler(event) ==
    [NoLocals EXCEPT !.kind = "handler", !.pc = "begin", !.etype = event.etype,
                       !.uid = event.uid, !.mtype = event.mtype,
                       !.text = event.text, !.msg_id = event.msg_id]

\* webhook(): GET and HEAD are the health check
WebhookGet ==
    /\ delivery' = Response(0, 0, "OK")
    /\ sent' = <<>>
    /\ exited' = <<>>
    /\ UNCHANGED <<user_state, threads, sheets, master, createCalls>>

\* webhook(): POST with an empty or missing events array
WebhookNoEvent ==
    /\ delivery' = Response(0, 0, "NOEVENT")
    /\ sent' = <<>>
    /\ exited' = <<>>
    /\ UNCHANGED <<user_state, threads, sheets, master, createCalls>>

\* webhook(): POST with events: a handler thread is started for events[0]
WebhookPost ==
    \E n \in BatchSizes, first \in Events :
        /\ CanStart
        /\ threads' = threads (+) One(StartHandler(first))
        /\ delivery' = Response(n, 1, "OK")
        /\ sent' = <<>>
        /\ exited' = <<>>
        /\ UNCHANGED <<user_state, sheets, master, createCalls>>

(***************************************************************************)
(* _handle_event                                                           *)
(***************************************************************************)
Session(uid) == user_state[uid]
Running(th, kind, pc) == th.kind = kind /\ th.pc = pc
CallOutcomes == {"ok", "error"}

\* where the handler goes after reading step (the if-chain on mtype and step);
\* a text in wait_template_img, wait_filled_img or done, and any other message
\* type, matches no branch and the handler returns
Route(mtype, step) ==
    IF mtype = "text"
    THEN CASE step = "start"            -> "call_name"
           [] step = "confirm_store"    -> "confirm_store"
           [] step = "ask_seats"        -> "call_seats"
           [] step = "confirm_seats"    -> "confirm_seats"
           [] step = "confirm_template" -> "confirm_template"
           [] OTHER                     -> "return"
    ELSE IF mtype = "image" THEN "image" ELSE "return"

\* the thread returns (or dies)
Return(th, failed, notified) ==
    /\ threads' = threads (-) One(th)
    /\ exited' = Exit(th, failed, notified)
\* the thread returns right after reading step
ReturnAt(th, step, failed, notified) ==
    /\ threads' = threads (-) One(th)
    /\ exited' = Exit([th EXCEPT !.step = step], failed, notified)
\* the thread goes on, with its position and locals as in next
Continue(th, next) ==
    /\ threads' = (threads (-) One(th)) (+) One(next)
    /\ exited' = <<>>

\* the except clause of _handle_event: log, reply with the generic error
Raise(th) ==
    /\ Return(th, TRUE, TRUE)
    /\ sent' = Msg(th.uid, "reply", "internal_error")

\* event type check, user_state.setdefault(uid, {"step": "start"}), st.get("step")
HBegin(th) ==
    /\ Running(th, "handler", "begin")
    /\ LET st == IF Session(th.uid) = NoSession THEN NewSession ELSE Session(th.uid)
           pc == Route(th.mtype, st.step)
       IN  IF th.etype # "message"
           THEN /\ Return(th, FALSE, FALSE)
                /\ UNCHANGED user_state
           ELSE /\ user_state' = [user_state EXCEPT ![th.uid] = st]
                /\ IF pc = "return"
                   THEN ReturnAt(th, st.step, FALSE, FALSE)
                   ELSE Continue(th, [th EXCEPT !.pc = pc, !.step = st.step])
    /\ sent' = <<>>
    /\ UNCHANGED <<sheets, master, createCalls>>
    /\ delivery' = NoDelivery

\* SetStore with the store_id left out of the update
SetStoreNoId(st, name, sid) ==
    [st EXCEPT !.step = "confirm_store", !.store_name = name]

\* SetStore with the state's name misspelt
SetStoreBadStep(st, name, sid) ==
    [st EXCEPT !.step = "confirm_shop", !.store_name = name, !.store_id = sid]

\* the write of the start branch: st.update({"step": "confirm_store", ...})
SetStore(st, name, sid) ==
    [st EXCEPT !.step = "confirm_store", !.store_name = name, !.store_id = sid]

\* step == "start": the text model returns the store name, or raises
HCallName(th) ==
    /\ Running(th, "handler", "call_name")
    /\ \E outcome \in CallOutcomes, name \in Names, sid \in StoreIds :
         IF outcome = "ok"
         THEN /\ user_state' = [user_state EXCEPT ![th.uid] = SetStore(@, name, sid)]
              /\ Return(th, FALSE, FALSE)
              /\ sent' = Msg(th.uid, "reply", "store_confirm_prompt")
         ELSE /\ Raise(th)
              /\ UNCHANGED user_state
    /\ UNCHANGED <<sheets, master, createCalls>>
    /\ delivery' = NoDelivery

\* the two branches of a confirmation: "はい" in text, else
Affirmative(text) == Contains(text, "hai")

\* step == "confirm_store"
HConfirmStore(th) ==
    /\ Running(th, "handler", "confirm_store")
    /\ IF Affirmative(th.text)
       THEN /\ user_state' = [user_state EXCEPT ![th.uid].step = "ask_seats"]
            /\ sent' = Msg(th.uid, "reply", "ask_seats")
       ELSE /\ user_state' = [user_state EXCEPT ![th.uid].step = "start"]
            /\ sent' = Msg(th.uid, "reply", "resend_store_name")
    /\ Return(th, FALSE, FALSE)
    /\ UNCHANGED <<sheets, master, createCalls>>
    /\ delivery' = NoDelivery

\* step == "ask_seats": the text model returns the seat counts, or raises
HCallSeats(th) ==
    /\ Running(th, "handler", "call_seats")
    /\ \E outcome \in CallOutcomes, seat_info \in SeatInfos :
         IF outcome = "ok"
         THEN /\ user_state' = [user_state EXCEPT ![th.uid] =
                    [@ EXCEPT !.step = "confirm_seats", !.seat_info = seat_info]]
              /\ Return(th, FALSE, FALSE)
              /\ sent' = Msg(th.uid, "reply", "seats_confirm_prompt")
         ELSE /\ Raise(th)
              /\ UNCHANGED user_state
    /\ UNCHANGED <<sheets, master, createCalls>>
    /\ delivery' = NoDelivery

\* step == "confirm_seats"
HConfirmSeats(th) ==
    /\ Running(th, "handler", "confirm_seats")
    /\ IF Affirmative(th.text)
       THEN /\ user_state' = [user_state EXCEPT ![th.uid].step = "wait_template_img"]
            /\ sent' = Msg(th.uid, "reply", "send_template")
       ELSE /\ user_state' = [user_state EXCEPT ![th.uid].step = "ask_seats"]
            /\ sent' = Msg(th.uid, "reply", "reenter_seats")
    /\ Return(th, FALSE, FALSE)
    /\ UNCHANGED <<sheets, master, createCalls>>
    /\ delivery' = NoDelivery

\* step == "confirm_template": on "はい" reply and call _vision_extract_times
\* with st["template_img"] (a missing key raises); else back to wait_template_img
HConfirmTemplate(th) ==
    /\ Running(th, "handler", "confirm_template")
    /\ LET st == Session(th.uid)
       IN  IF Affirmative(th.text)
           THEN /\ IF st.template_img = None
                   THEN Raise(th)
                   ELSE /\ Continue(th, [th EXCEPT !.pc = "call_times",
                                                   !.img = st.template_img])
                        /\ sent' = Msg(th.uid, "reply", "creating_sheet")
                /\ UNCHANGED user_state
           ELSE /\ user_state' = [user_state EXCEPT ![th.uid].step = "wait_template_img"]
                /\ Return(th, FALSE, FALSE)
                /\ sent' = Msg(th.uid, "reply", "resend_template")
    /\ UNCHANGED <<sheets, master, createCalls>>
    /\ delivery' = NoDelivery

\* what _vision_extract_times returns: the parsed list, or [] when the model
\* call or json.loads raised
ExtractedTimes(outcome, data) == IF outcome = "ok" THEN data ELSE <<>>

\* _vision_extract_times returns; create_store_sheet is then invoked with the
\* session's store_name, store_id and seat_info (a missing key raises)
HCallTimes(th) ==
    /\ Running(th, "handler", "call_times")
    /\ createCalls[th.uid] < MaxCreate
    /\ \E outcome \in CallOutcomes, data \in TimeLists :
         LET st == Session(th.uid)
             times == ExtractedTimes(outcome, data)
         IN  IF st.store_name = None \/ st.store_id = 0 \/ st.seat_info = None
             THEN /\ Raise(th)
                  /\ UNCHANGED createCalls
             ELSE /\ Continue(th, [th EXCEPT !.pc = "call_create", !.times = times,
                                   !.arg = <<st.store_name, st.store_id, st.seat_info>>,
                                   !.failed = (outcome # "ok")])
                  /\ createCalls' = [createCalls EXCEPT ![th.uid] = @ + 1]
                  /\ sent' = <<>>
    /\ UNCHANGED <<user_state, sheets, master>>
    /\ delivery' = NoDelivery

\* create_store_sheet returns the url, or raises part of the way
HCallCreate(th) ==
    /\ Running(th, "handler", "call_create")
    /\ \E outcome \in CreateOutcomes :
         LET r == create_store_sheet(th.arg[1], th.arg[2], th.arg[3], th.times, outcome)
         IN  /\ sheets' = r.sheets
             /\ master' = r.master
             /\ IF r.raised
                THEN /\ Raise(th)
                     /\ UNCHANGED user_state
                ELSE /\ user_state' = [user_state EXCEPT ![th.uid] =
                           [@ EXCEPT !.step = "wait_filled_img", !.sheet_url = r.url]]
                     /\ Return(th, th.failed, FALSE)
                     /\ sent' = Msg(th.uid, "push", "sheet_created")
    /\ UNCHANGED createCalls
    /\ delivery' = NoDelivery

\* Thread(target=_process_template | _process_filled, args=(uid, msg_id)).start()
StartWorker(kind, th) ==
    [NoLocals EXCEPT !.kind = kind, !.pc = "begin", !.uid = th.uid,
                     !.msg_id = th.msg_id]

\* HImage with the template worker started in every step but wait_filled_img
HImageAnyStep(th) ==
    /\ Running(th, "handler", "image")
    /\ IF th.step = "wait_filled_img"
       THEN /\ threads' = (threads (-) One(th)) (+) One(StartWorker("filled", th))
            /\ sent' = Msg(th.uid, "reply", "image_received_filled")
       ELSE /\ threads' = (threads (-) One(th)) (+) One(StartWorker("template", th))
            /\ sent' = Msg(th.uid, "reply", "image_received_template")
    /\ exited' = Exit(th, FALSE, FALSE)
    /\ UNCHANGED <<user_state, sheets, master, createCalls>>
    /\ delivery' = NoDelivery

\* mtype == "image": start the worker the step read at the top asks for, reply
\* and return; the handler ends in the step that starts the worker, so the
\* number of live threads is the same after it
HImage(th) ==
    /\ Running(th, "handler", "image")
    /\ IF th.step = "wait_template_img"
       THEN /\ threads' = (threads (-) One(th)) (+) One(StartWorker("template", th))
            /\ sent' = Msg(th.uid, "reply", "image_received_template")
       ELSE IF th.step = "wait_filled_img"
       THEN /\ threads' = (threads (-) One(th)) (+) One(StartWorker("filled", th))
            /\ sent' = Msg(th.uid, "reply", "image_received_filled")
       ELSE /\ threads' = threads (-) One(th)
            /\ sent' = Msg(th.uid, "reply", "cannot_process_image")
    /\ exited' = Exit(th, FALSE, FALSE)
    /\ UNCHANGED <<user_state, sheets, master, createCalls>>
    /\ delivery' = NoDelivery

(***************************************************************************)
(* _process_template                                                       *)
(***************************************************************************)
\* an exception in a worker is caught by nobody: the thread dies silently
Die(th) ==
    /\ Return(th, TRUE, FALSE)
    /\ sent' = <<>>

\* st = user_state.get(uid); return unless step is wait_template_img
TBegin(th) ==
    /\ Running(th, "template", "begin")
    /\ LET st == Session(th.uid)
       IN  IF st = NoSession \/ st.step # "wait_template_img"
           THEN ReturnAt(th, st.step, FALSE, FALSE)
           ELSE Continue(th, [th EXCEPT !.pc = "download", !.step = st.step])
    /\ sent' = <<>>
    /\ UNCHANGED <<user_state, sheets, master, createCalls>>
    /\ delivery' = NoDelivery

\* _download_line_img returns the bytes, or raise_for_status / requests raises
TDownload(th) ==
    /\ Running(th, "template", "download")
    /\ \E outcome \in CallOutcomes :
         IF outcome = "ok"
         THEN /\ Continue(th, [th EXCEPT !.pc = "describe", !.img = th.msg_id])
              /\ sent' = <<>>
         ELSE Die(th)
    /\ UNCHANGED <<user_state, sheets, master, createCalls>>
    /\ delivery' = NoDelivery

\* _vision_describe_sheet returns the description, or its failure text; the
\* description is stored with step confirm_template whatever the step is now
TDescribe(th) ==
    /\ Running(th, "template", "describe")
    /\ \E outcome \in CallOutcomes :
         IF outcome = "ok"
         THEN /\ user_state' = [user_state EXCEPT ![th.uid] =
                    [@ EXCEPT !.template_img = th.img, !.step = "confirm_template"]]
              /\ Return(th, FALSE, FALSE)
              /\ sent' = Msg(th.uid, "push", "template_confirm_prompt")
         ELSE /\ Return(th, TRUE, TRUE)
              /\ sent' = Msg(th.uid, "push", "describe_failed")
              /\ UNCHANGED user_state
    /\ UNCHANGED <<sheets, master, createCalls>>
    /\ delivery' = NoDelivery

(***************************************************************************)
(* _process_filled                                                         *)
(***************************************************************************)
\* st = user_state.get(uid); return unless step is wait_filled_img
FBegin(th) ==
    /\ Running(th, "filled", "begin")
    /\ LET st == Session(th.uid)
       IN  IF st = NoSession \/ st.step # "wait_filled_img"
           THEN ReturnAt(th, st.step, FALSE, FALSE)
           ELSE Continue(th, [th EXCEPT !.pc = "download", !.step = st.step])
    /\ sent' = <<>>
    /\ UNCHANGED <<user_state, sheets, master, createCalls>>
    /\ delivery' = NoDelivery

FDownload(th) ==
    /\ Running(th, "filled", "download")
    /\ \E outcome \in CallOutcomes :
         IF outcome = "ok"
         THEN /\ Continue(th, [th EXCEPT !.pc = "extract", !.img = th.msg_id])
              /\ sent' = <<>>
         ELSE Die(th)
    /\ UNCHANGED <<user_state, sheets, master, createCalls>>
    /\ delivery' = NoDelivery

\* _vision_extract_rows returns the parsed list, or [] when the model call or
\* json.loads raised; with rows, append_reservations is invoked with
\* st["sheet_url"] (a missing key is caught like a failed append)
FExtract(th) ==
    /\ Running(th, "filled", "extract")
    /\ \E outcome \in CallOutcomes, data \in RowLists :
         LET st == Session(th.uid)
             rows == IF outcome = "ok" THEN data ELSE <<>>
         IN  IF rows = <<>>
             THEN /\ Return(th, outcome # "ok", TRUE)
                  /\ sent' = Msg(th.uid, "push", "rows_not_detected")
             ELSE IF st.sheet_url = 0
             THEN /\ Return(th, TRUE, TRUE)
                  /\ sent' = Msg(th.uid, "push", "append_failed")
             ELSE /\ Continue(th, [th EXCEPT !.pc = "append", !.rows = rows,
                                              !.arg = <<st.sheet_url>>])
                  /\ sent' = <<>>
    /\ UNCHANGED <<user_state, sheets, master, createCalls>>
    /\ delivery' = NoDelivery

\* FAppend without the return of the except clause: a failed append goes on
\* to the success message and to st['step'] = 'done'
FAppendNoReturn(th) ==
    /\ Running(th, "filled", "append")
    /\ \E outcome \in AppendOutcomes :
         /\ sheets' = IF outcome = "ok" THEN append_reservations(th.arg[1], th.rows)
                                        ELSE sheets
         /\ Continue(th, [th EXCEPT !.pc = "set_done", !.rows = <<>>, !.arg = <<>>])
         /\ sent' = Msg(th.uid, "push", "rows_appended")
    /\ UNCHANGED <<user_state, master, createCalls>>
    /\ delivery' = NoDelivery

\* append_reservations returns, or raises; on success the user is told
\* (_line_push) before step is set
FAppend(th) ==
    /\ Running(th, "filled", "append")
    /\ \E outcome \in AppendOutcomes :
         IF outcome = "ok"
         THEN /\ sheets' = append_reservations(th.arg[1], th.rows)
              /\ Continue(th, [th EXCEPT !.pc = "set_done", !.rows = <<>>, !.arg = <<>>])
              /\ sent' = Msg(th.uid, "push", "rows_appended")
         ELSE /\ Return(th, TRUE, TRUE)
              /\ sent' = Msg(th.uid, "push", "append_failed")
              /\ UNCHANGED sheets
    /\ UNCHANGED <<user_state, master, createCalls>>
    /\ delivery' = NoDelivery

\* st['step'] = 'done'
FSetDone(th) ==
    /\ Running(th, "filled", "set_done")
    /\ user_state' = [user_state EXCEPT ![th.uid].step = "done"]
    /\ Return(th, FALSE, FALSE)
    /\ sent' = <<>>
    /\ UNCHANGED <<sheets, master, createCalls>>
    /\ delivery' = NoDelivery

(***************************************************************************)
(* Specification                                                           *)
(***************************************************************************)
Next ==
    \/ WebhookGet
    \/ WebhookNoEvent
    \/ WebhookPost
    \/ \E th \in Live : HBegin(th)
    \/ \E th \in Live : HCallName(th)
    \/ \E th \in Live : HConfirmStore(th)
    \/ \E th \in Live : HCallSeats(th)
    \/ \E th \in Live : HConfirmSeats(th)
    \/ \E th \in Live : HConfirmTemplate(th)
    \/ \E th \in Live : HCallTimes(th)
    \/ \E th \in Live : HCallCreate(th)
    \/ \E th \in Live : HImage(th)
    \/ \E th \in Live : TBegin(th)
    \/ \E th \in Live : TDownload(th)
    \/ \E th \in Live : TDescribe(th)
    \/ \E th \in Live : FBegin(th)
    \/ \E th \in Live : FDownload(th)
    \/ \E th \in Live : FExtract(th)
    \/ \E th \in Live : FAppend(th)
    \/ \E th \in Live : FSetDone(th)

Spec == Init /\ [][Next]_vars

(***************************************************************************)
(* Properties                                                              *)
(***************************************************************************)
\* thread th takes the step: one copy of it leaves the bag
Took(th) == CopiesIn(th, threads') < CopiesIn(th, threads)
StepOf(u) == user_state[u].step
\* the negative token "いいえ" of the confirmation prompts
Negative(text) == Contains(text, "iie")
ConfirmPcs == {"confirm_store", "confirm_seats", "confirm_template"}
\* the prompt that led to each confirmation state
PromptOf(pc) ==
    CASE pc = "confirm_store"    -> "store_confirm_prompt"
      [] pc = "confirm_seats"    -> "seats_confirm_prompt"
      [] pc = "confirm_template" -> "template_confirm_prompt"

\* C1: the spreadsheet is created at most once per user: create_store_sheet
\* is invoked at most once for a user id, and sheet_url, once set, is never
\* assigned again.
C1_SheetCreatedOnce ==
    /\ [](\A u \in Users : createCalls[u] <= 1)
    /\ [][\A u \in Users :
            user_state[u].sheet_url # 0
                => user_state'[u].sheet_url = user_state[u].sheet_url]_vars

\* C2: in a confirmation state, a text with neither the affirmative nor the
\* negative token leaves the step unchanged and re-sends the confirmation
\* prompt.
C2_NeitherReprompts ==
    [][\A th \in Live :
         (/\ th.kind = "handler"
          /\ th.pc \in ConfirmPcs
          /\ ~Contains(th.text, "hai")
          /\ ~Negative(th.text)
          /\ Took(th))
         => /\ StepOf(th.uid)' = StepOf(th.uid)
            /\ sent' = Msg(th.uid, "reply", PromptOf(th.pc))]_vars

\* C3: an empty time-slot list never reaches spreadsheet creation: no
\* create_store_sheet call is made with an empty list, and the sheet of a
\* session (step wait_filled_img or later) holds at least one time row.
C3_EmptyTimesNeverCreate ==
    /\ \A th \in Live : th.pc = "call_create" => th.times # <<>>
    /\ \A u \in Users :
          user_state[u].sheet_url # 0 => Len(sheets[user_state[u].sheet_url]) > 1

\* C4: a sheet holds at most one row per time label (the header apart),
\* whatever append_reservations calls were made on it.
C4_OneRowPerTimeLabel ==
    \A url \in 1..Len(sheets) :
        \A i, j \in 2..Len(sheets[url]) :
            i # j => sheets[url][i][TimeCol] # sheets[url][j][TimeCol]

\* C5: once store_id has a value, no step gives it a different one.
C5_StoreIdImmutable ==
    [][\A u \in Users :
         user_state[u].store_id # 0
             => user_state'[u].store_id = user_state[u].store_id]_vars

\* C6: in confirm_store, a text with the negative token moves the session to
\* start and clears store_name and store_id.
C6_NegativeClearsStore ==
    [][\A th \in Live :
         (/\ Running(th, "handler", "confirm_store")
          /\ Negative(th.text)
          /\ ~Contains(th.text, "hai")
          /\ Took(th))
         => /\ StepOf(th.uid)' = "start"
            /\ user_state'[th.uid].store_name = None
            /\ user_state'[th.uid].store_id = 0]_vars

\* C7: the first message of an unseen user creates the session in the initial
\* state; a store-name extraction that succeeds leaves the session in
\* confirm_store with store_name and store_id set and replies with the yes/no
\* prompt; a text containing the affirmative token handled in confirm_store
\* moves the session to ask_seats.
C7_RegistrationScenario ==
    [][/\ \A u \in Users :
            (user_state[u] = NoSession /\ user_state'[u] # NoSession)
                => user_state'[u] = [NoSession EXCEPT !.step = "start"]
       /\ \A th \in Live :
            (Running(th, "handler", "call_name") /\ Took(th)
                /\ sent' # Msg(th.uid, "reply", "internal_error"))
            => /\ StepOf(th.uid)' = "confirm_store"
               /\ user_state'[th.uid].store_name \in Names
               /\ user_state'[th.uid].store_id \in StoreIds
               /\ sent' = Msg(th.uid, "reply", "store_confirm_prompt")
       /\ \A th \in Live :
            (Running(th, "handler", "confirm_store") /\ Took(th)
                /\ Contains(th.text, "hai"))
            => StepOf(th.uid)' = "ask_seats"]_vars

\* C7 witness: the user has just answered yes to the store confirmation
C7_Witness ==
    /\ StepOf("u1") = "ask_seats"
    /\ user_state["u1"].store_name = "Blue Moon Cafe"
    /\ user_state["u1"].store_id \in StoreIds
    /\ sent = Msg("u1", "reply", "ask_seats")

\* C8: a thread in which an external call failed leaves the session's step as
\* it was, and defined.
C8_FailureKeepsStep ==
    [][\A u \in Users :
         (exited' # <<>> /\ exited'[1].uid = u /\ exited'[1].failed)
             => /\ StepOf(u)' = StepOf(u)
                /\ StepOf(u)' \in Steps]_vars

\* C9: a thread in which an external call failed has sent the user a message
\* asking to retry or resubmit by the time it ends.
C9_FailureNotified ==
    \A i \in 1..Len(exited) : exited[i].failed => exited[i].notified

\* C10: a POST delivery with n >= 1 events dispatches each of the n events.
C10_EveryEventDispatched ==
    (delivery.response = "OK" /\ delivery.n >= 1) => delivery.dispatched = delivery.n

\* positions at which a thread is inside an external call: a model call, an
\* image download or a spreadsheet call
ExternalPcs(kind) ==
    CASE kind = "handler"  -> {"call_name", "call_seats", "call_times", "call_create"}
      [] kind = "template" -> {"download", "describe"}
      [] kind = "filled"   -> {"download", "extract", "append"}
      [] OTHER             -> {}
InCall(th) == th.pc \in ExternalPcs(th.kind)

\* C11: the webhook answers every POST with status 200 without waiting for
\* the dispatched work: whenever a thread can be started the POST can be
\* answered, whatever the live threads are doing; the step that answers a POST
\* with events only adds the new handler, not yet run, to the live threads;
\* and a POST without events is answered with status 200 and starts nothing.
C11_WebhookAnswersWithoutWaiting ==
    /\ [](CanStart => ENABLED WebhookPost)
    /\ [][delivery' # NoDelivery =>
            /\ delivery'.status = HttpOk
            /\ UNCHANGED <<user_state, sheets, master, createCalls>>
            /\ IF delivery'.n >= 1
               THEN \E e \in Events : threads' = threads (+) One(StartHandler(e))
               ELSE threads' = threads]_vars

\* C11 witness: a POST with events has just been answered while a thread
\* dispatched earlier is blocked in an external call
C11_Witness ==
    /\ delivery.n >= 1
    /\ delivery.status = HttpOk
    /\ \E th \in Live : InCall(th)
    /\ \E th \in Live : Running(th, "handler", "begin")

\* C12: for every user, at most one thread working for that user is inside
\* an external call (model call, image download, spreadsheet call).
C12_OneCallInFlight ==
    \A th \in Live :
        InCall(th) =>
            /\ CopiesIn(th, threads) = 1
            /\ \A other \in Live \ {th} : ~(InCall(other) /\ other.uid = th.uid)

\* C13: every existing session has a step, and it is one of the defined
\* states.
C13_StepDefined ==
    \A u \in Users : user_state[u] # NoSession => StepOf(u) \in Steps

\* C13 witness: a template worker that started earlier has written its step
\* after the sheet was created, while another thread is live
C13_Witness ==
    /\ StepOf("u1") = "confirm_template"
    /\ user_state["u1"].sheet_url # 0
    /\ sent = Msg("u1", "push", "template_confirm_prompt")
    /\ threads # EmptyBag

\* C14: a create_store_sheet call with time-slot list T that writes a sheet
\* writes the header row followed by one row per element of T, in the order
\* of T, each with the label in the time column and blanks elsewhere; for
\* empty T the header row only.
C14_CreateWritesHeaderAndTimeRows ==
    [][\A th \in Live :
         (Running(th, "handler", "call_create") /\ Took(th) /\ sheets' # sheets)
         => /\ Len(sheets') = Len(sheets) + 1
            /\ \A k \in 1..Len(sheets) : sheets'[k] = sheets[k]
            /\ LET rows == sheets'[Len(sheets')]
               IN  /\ Len(rows) = 1 + Len(th.times)
                   /\ rows[1] = Header
                   /\ \A i \in 1..Len(th.times) :
                         /\ Len(rows[i + 1]) = Len(Header)
                         /\ \A c \in 1..Len(Header) :
                               rows[i + 1][c] = IF c = TimeCol THEN th.times[i] ELSE ""]_vars

\* C14 witness: the sheet has just been created from the list 18:00, 18:30
C14_Witness ==
    /\ sent = Msg("u1", "push", "sheet_created")
    /\ user_state["u1"].sheet_url # 0
    /\ sheets[user_state["u1"].sheet_url] =
           <<Header, <<"", "", "18:00", "", "", "">>, <<"", "", "18:30", "", "", "">>>>

\* C15: an image handled in state done starts the filled-image worker for it
\* (whose rows are then extracted and appended).
C15_DoneAcceptsImage ==
    [][\A th \in Live :
         (Running(th, "handler", "image") /\ th.step = "done" /\ Took(th))
         => CopiesIn(StartWorker("filled", th), threads')
                > CopiesIn(StartWorker("filled", th), threads)]_vars

\* the states in which a text matches no branch of the handler
WaitingSteps == {"wait_template_img", "wait_filled_img", "done"}

\* C16: a text message handled while the session is in wait_template_img,
\* wait_filled_img or done leaves the step unchanged and sends the user a
\* message.
C16_TextReprompted ==
    [][\A th \in Live :
         (/\ Running(th, "handler", "begin")
          /\ th.etype = "message"
          /\ th.mtype = "text"
          /\ StepOf(th.uid) \in WaitingSteps
          /\ Took(th))
         => /\ StepOf(th.uid)' = StepOf(th.uid)
            /\ sent' # <<>>]_vars

\* the states in which an image starts no worker (done apart)
RegistrationSteps == {"start", "confirm_store", "ask_seats", "confirm_seats",
                      "confirm_template"}
\* the session a handler finds: that of an unseen user is created in start
Found(u) == IF user_state[u] = NoSession THEN NewSession ELSE user_state[u]

\* C17: the steps of a handler of an image message that reads one of start,
\* confirm_store, ask_seats, confirm_seats, confirm_template leave every
\* field of the session as found, change no sheet, and add no worker and no
\* thread inside an external call to the live threads.
C17_ImageIgnored ==
    [][\A th \in Live :
         (/\ th.kind = "handler"
          /\ th.mtype = "image"
          /\ Took(th)
          /\ (IF th.pc = "begin" THEN Found(th.uid).step ELSE th.step)
                 \in RegistrationSteps)
         => /\ user_state'[th.uid] = Found(th.uid)
            /\ UNCHANGED <<sheets, master, createCalls>>
            /\ \A w \in BagToSet(threads') :
                  (w.kind # "handler" \/ InCall(w))
                      => CopiesIn(w, threads') <= CopiesIn(w, threads)]_vars

\* C17 witness: an image sent in confirm_template has just been refused
C17_Witness ==
    /\ sent = Msg("u1", "reply", "cannot_process_image")
    /\ exited # <<>>
    /\ exited[1].step = "confirm_template"
    /\ StepOf("u1") = "confirm_template"
    /\ user_state["u1"].template_img # None

FilledSteps == {"wait_filled_img", "done"}

\* C18: once the step of a session is wait_filled_img or done, a template
\* worker that started earlier leaves it wait_filled_img or done when it
\* finishes its analysis.
C18_FilledNeverBack ==
    [][\A th \in Live :
         (/\ Running(th, "template", "describe")
          /\ Took(th)
          /\ StepOf(th.uid) \in FilledSteps)
         => StepOf(th.uid)' \in FilledSteps]_vars

\* C19: a session holds the fields its step needs (store_name and store_id
\* from confirm_store on, seat_info from confirm_seats on, template_img in
\* confirm_template, sheet_url in wait_filled_img and done), and a thread
\* that is about to read a session field finds it.
C19_FieldsPresent ==
    /\ \A u \in Users :
          LET st == user_state[u]
          IN  st # NoSession =>
                /\ st.step # "start" => (st.store_name # None /\ st.store_id # 0)
                /\ st.step \notin {"start", "confirm_store", "ask_seats"}
                       => st.seat_info # None
                /\ st.step = "confirm_template" => st.template_img # None
                /\ st.step \in FilledSteps => st.sheet_url \in 1..Len(sheets)
    /\ \A th \in Live :
          LET st == Session(th.uid)
          IN  /\ Running(th, "handler", "confirm_template") => st.template_img # None
              /\ Running(th, "handler", "call_times")
                    => (st.store_name # None /\ st.store_id # 0 /\ st.seat_info # None)
              /\ Running(th, "filled", "extract") => st.sheet_url \in 1..Len(sheets)

\* C19 witness: a handler is about to read the session for create_store_sheet
\* in a session whose step a later message has moved on
C19_Witness ==
    /\ \E th \in Live : Running(th, "handler", "call_times")
    /\ StepOf("u1") = "wait_filled_img"
    /\ user_state["u1"].sheet_url # 0

\* the sheet_urls create_store_sheet has returned (it registers each one in
\* the master index before it returns)
Returned == {master[i][3] : i \in 1..Len(master)}

\* C20: rows are appended only to a sheet_url that create_store_sheet has
\* returned, hence after it succeeded; step done is written only by a filled
\* worker at its last statement; and a worker gets there only by an append of
\* a non-empty row list, which put its rows at the end of that sheet.
C20_AppendAfterCreate ==
    [][/\ \A th \in Live :
            (Running(th, "filled", "append") /\ Took(th) /\ sheets' # sheets)
            => /\ th.arg[1] \in Returned
               /\ \A k \in 1..Len(sheets) : k # th.arg[1] => sheets'[k] = sheets[k]
       /\ \A u \in Users :
            (StepOf(u)' = "done" /\ StepOf(u) # "done")
            => \E th \in Live : Running(th, "filled", "set_done") /\ th.uid = u /\ Took(th)
       /\ \A th \in Live :
            (Took(th) /\ \E w \in BagToSet(threads') :
                            /\ Running(w, "filled", "set_done")
                            /\ CopiesIn(w, threads') > CopiesIn(w, threads))
            => /\ Running(th, "filled", "append")
               /\ th.rows # <<>>
               /\ th.arg[1] \in Returned
               /\ sheets'[th.arg[1]] = sheets[th.arg[1]] \o Values(th.rows)]_vars

\* C20 witness: a filled worker has just set done after its append
C20_Witness ==
    /\ StepOf("u1") = "done"
    /\ exited # <<>>
    /\ exited[1].kind = "filled"
    /\ user_state["u1"].sheet_url \in Returned
    /\ Len(sheets[user_state["u1"].sheet_url]) >= 4

====
